---- MODULE Spec2Model ----
(***************************************************************************)
(* Model of the DemoMed client of ksense-take-home: the retrying request   *)
(* helper fetchWithRetry, the paginated fetchAllPatients loop, the         *)
(* submitAssessment call and the two route handlers (GET /api/patients,    *)
(* POST /api/submit-assessment) that call them.                            *)
(*                                                                         *)
(* One behaviour is one route invocation: the environment and the inputs   *)
(* are drawn in Init, the remote API answers every request                 *)
(* nondeterministically, and every await on the network is a step.         *)
(***************************************************************************)
EXTENDS Integers, Sequences, FiniteSets, TLC

(***************************************************************************)
(* Bounds of the model.                                                    *)
(***************************************************************************)
\* largest maxPages the GET route is invoked with
MaxPagesBound == 3
\* largest page / totalPages value the remote puts into its pagination object
MaxReported == 3

(***************************************************************************)
(* Program constants.                                                      *)
(***************************************************************************)
\* variant: one attempt too many
MAX_ATTEMPTS_Six == 5 + 1
MAX_ATTEMPTS == 5
BASE_DELAY_MS == 300
DELAY_CAP_MS == 4000

\* the value of an unset optional (JavaScript undefined) number
Undefined == -1

\* process.env values: unset, set to the empty string, set to a key
EnvValues == {"undefined", "", "k"}

\* HTTP statuses the remote answers with
Statuses == {200, 400, 404, 429, 500, 503}

\* response.ok
IsOk(status) == status >= 200 /\ status <= 299

isRetriableStatus(status) == status = 429 \/ status = 500 \/ status = 503

\* 2 ** n
RECURSIVE Pow2(_)
Pow2(n) == IF n <= 0 THEN 1 ELSE 2 * Pow2(n - 1)

Min(a, b) == IF a <= b THEN a ELSE b

\* variant: the delay grows linearly, not exponentially
BackoffDelay_Linear(n) == Min(BASE_DELAY_MS * n, DELAY_CAP_MS)

\* Math.min(BASE_DELAY_MS * 2 ** (attempt - 1), 4000)
BackoffDelay(n) == Min(BASE_DELAY_MS * Pow2(n - 1), DELAY_CAP_MS)

\* process.env.DEMOMED_API_KEY ?? process.env.NEXT_PUBLIC_DEMOMED_API_KEY
EnvKey(e) ==
    IF e.DEMOMED_API_KEY # "undefined"
    THEN e.DEMOMED_API_KEY
    ELSE e.NEXT_PUBLIC_DEMOMED_API_KEY

\* variant: only an unset key is rejected, an empty one is used
KeyMissing_OnlyUnset(key) == key = "undefined"

\* !key : the key is undefined or the empty string
KeyMissing(key) == key = "undefined" \/ key = ""

\* the environments a route is invoked in
Envs == [DEMOMED_API_KEY : EnvValues, NEXT_PUBLIC_DEMOMED_API_KEY : EnvValues]

VARIABLES
    apiKey,         \* const key of getApiKey, read from process.env
    pc,             \* position of the running route invocation
    op,             \* "none", "fetchAllPatients" or "submitAssessment"
    query,          \* GET: the limit and maxPages parameters of request.url
    limit,          \* fetchAllPatients: limit option
    maxPages,       \* fetchAllPatients: maxPages option
    page,           \* fetchAllPatients: let page
    pagesFetched,   \* fetchAllPatients: let pagesFetched
    hasNext,        \* fetchAllPatients: let hasNext
    totalPages,     \* fetchAllPatients: let totalPages (Undefined when unset)
    patients,       \* fetchAllPatients: const patients
    payload,        \* fetchAllPatients: the parsed body of the last page
    served,         \* the data field of every page body parsed so far, in order
    url,            \* fetchWithRetry: the URL of the call
    attempt,        \* fetchWithRetry: let attempt
    requests,       \* requests issued by the current fetchWithRetry call
    lastOutcome,    \* what the last finished request of the current call ended in
    waits,          \* the delays the current fetchWithRetry call has waited
    result,         \* what the library call returned to the route
    error,          \* what the library call threw to the route
    routeResponse   \* what the route handler answered

\* the state of the page (the Home component)
VARIABLES
    inputs,         \* useState<Inputs>: the four text fields of the form
    scoreResult,    \* useState<ScoreBreakdown | null>: the last calculation
    entry,          \* fetchPatients: the record forEach was last called with
    processed,      \* fetchPatients: records forEach has been called with
    offered,        \* the patient_id / id fields of the records so far
    loadingPatients, \* useState(false): fetchPatients is running
    seen,           \* fetchPatients: const seen
    highRisk,       \* fetchPatients: const highRisk
    fever,          \* fetchPatients: const fever
    dataQuality,    \* fetchPatients: const dataQuality
    alerts          \* useState<AlertLists>

formVars == <<inputs, scoreResult>>
classifierVars == <<entry, processed, offered, loadingPatients, seen, highRisk,
                    fever, dataQuality, alerts>>
pageVars == <<formVars, classifierVars>>

fetchVars == <<apiKey, pc, op, query, limit, maxPages, page, pagesFetched, hasNext, totalPages,
          patients, payload, served, url, attempt, requests, lastOutcome, waits,
          result, error, routeResponse>>

vars == <<fetchVars, pageVars>>

loopVars == <<page, pagesFetched, hasNext, totalPages, patients, payload, served>>
callVars == <<url, attempt, requests, lastOutcome, waits>>

NoPayload == [present |-> FALSE]
NoResult == [returned |-> FALSE]
NoError == [thrown |-> FALSE]
NoResponse == [sent |-> FALSE]
NoUrl == [path |-> "none"]

\* outcome of a request that rejected (network / transport error)
TransportFailure == 0

\* a text is a sequence of characters
EmptyText == <<>>

\* searchParams.get(name): null when the parameter is absent, else its text
Absent == [present |-> FALSE, text |-> EmptyText]

Param(t) == [present |-> TRUE, text |-> t]

\* the query before any request: no parameter
NoQuery == [limit |-> Absent, maxPages |-> Absent]

\* useState<Inputs>({ systolic: "", diastolic: "", temperature: "", age: "" })
\* and useState<ScoreBreakdown | null>(null)
FormIdle ==
    /\ inputs = [systolic |-> EmptyText, diastolic |-> EmptyText,
                 temperature |-> EmptyText, age |-> EmptyText]
    /\ scoreResult = [present |-> FALSE]

\* useState<AlertLists>({ highRisk: [], fever: [], dataQuality: [],
\* totalPatients: 0 }), no fetchPatients running
ClassifierIdle ==
    /\ entry = [present |-> FALSE]
    /\ processed = 0
    /\ offered = {}
    /\ loadingPatients = FALSE
    /\ seen = {}
    /\ highRisk = <<>>
    /\ fever = <<>>
    /\ dataQuality = <<>>
    /\ alerts = [highRisk |-> <<>>, fever |-> <<>>, dataQuality |-> <<>>,
                 totalPatients |-> 0]

\* no route invocation has started
FetchIdle ==
    /\ apiKey = "undefined"
    /\ pc = "idle"
    /\ op = "none"
    /\ query = NoQuery
    /\ limit = 0
    /\ maxPages = 0
    /\ page = 0
    /\ pagesFetched = 0
    /\ hasNext = FALSE
    /\ totalPages = Undefined
    /\ patients = <<>>
    /\ payload = NoPayload
    /\ served = <<>>
    /\ url = NoUrl
    /\ attempt = 0
    /\ requests = 0
    /\ lastOutcome = Undefined
    /\ waits = <<>>
    /\ result = NoResult
    /\ error = NoError
    /\ routeResponse = NoResponse

Init == FetchIdle /\ FormIdle /\ ClassifierIdle

(***************************************************************************)
(* The remote's answers.                                                   *)
(***************************************************************************)
\* values of the optional fields pagination.page and pagination.totalPages
ReportedPages == {Undefined} \cup (1 .. MaxReported)
ReportedTotals == {Undefined} \cup (0 .. MaxReported)

\* the JSON bodies the list endpoint answers a request for page p with:
\* data is missing (or no array), an empty array, or an array of records
\* (a record is tagged with the page it was served for); every field of
\* pagination is optional
Payloads(p) ==
    [present : {TRUE},
     data : {"missing", "empty", "full"},
     records : {<<p>>},
     page : ReportedPages,
     totalPages : ReportedTotals,
     hasNext : {"undefined", "true", "false"}]

\* variant: the records of a body are taken whether or not data is an array
PageData_Unchecked(body) == IF body.data = "empty" THEN <<>> ELSE body.records

\* Array.isArray(payload.data) ? payload.data : []
PageData(body) == IF body.data = "full" THEN body.records ELSE <<>>

\* a ?? b on optional numbers
Coalesce(a, b) == IF a # Undefined THEN a ELSE b

(***************************************************************************)
(* fetchWithRetry                                                          *)
(***************************************************************************)
\* while (attempt < MAX_ATTEMPTS)
RetryLoopContinues(n) == n < MAX_ATTEMPTS

\* isRetriableStatus(response.status) && attempt < MAX_ATTEMPTS
RetriesStatus(status, n) == isRetriableStatus(status) /\ n < MAX_ATTEMPTS

\* catch (error) { if (attempt >= MAX_ATTEMPTS) throw error; ... }
CatchRethrows(n) == n >= MAX_ATTEMPTS

\* new Error(`Request failed with status ${response.status}...`)
StatusError(status) == [thrown |-> TRUE, kind |-> "status", status |-> status]
\* the rejection of fetch() itself
TransportError == [thrown |-> TRUE, kind |-> "transport", status |-> TransportFailure]
\* new Error("Exceeded maximum retry attempts")
ExceededError == [thrown |-> TRUE, kind |-> "exceeded", status |-> TransportFailure]
\* new Error("Missing DEMOMED_API_KEY environment variable")
ConfigError == [thrown |-> TRUE, kind |-> "config", status |-> TransportFailure]
\* the rejection of response.json()
JsonError == [thrown |-> TRUE, kind |-> "json", status |-> TransportFailure]

\* variant: the catch block answers without the status option
ErrorResponse_Status200(label, err) ==
    [sent |-> TRUE, status |-> 200, error |-> label, message |-> err.kind]

\* the catch block of a route handler: status 500, no data
ErrorResponse(label, err) ==
    [sent |-> TRUE, status |-> 500, error |-> label, message |-> err.kind]

RouteLabel(o) == IF o = "fetchAllPatients" THEN "Failed to fetch patients"
                 ELSE "Failed to submit assessment"

\* an error leaves fetchWithRetry, then the library call, and reaches the
\* catch block of the route handler
Throw(o, err) ==
    /\ error' = err
    /\ routeResponse' = ErrorResponse(RouteLabel(o), err)
    /\ pc' = "done"
    /\ UNCHANGED result

\* const delay = ...; await wait(delay); and the loop goes round
WaitAndRetry ==
    /\ waits' = Append(waits, BackoffDelay(attempt))
    /\ pc' = "retry"
    /\ UNCHANGED <<result, error, routeResponse>>

\* the head of the while loop: attempt += 1 and the request is issued; the
\* throw after the loop when the loop ends without a return
FetchAttempt ==
    /\ pc = "retry"
    /\ IF RetryLoopContinues(attempt)
       THEN /\ attempt' = attempt + 1
            /\ requests' = requests + 1
            /\ pc' = "await"
            /\ UNCHANGED <<result, error, routeResponse>>
       ELSE /\ Throw(op, ExceededError)
            /\ UNCHANGED <<attempt, requests>>
    /\ UNCHANGED <<apiKey, op, limit, maxPages, loopVars, url, lastOutcome, waits>>
    /\ UNCHANGED <<query, pageVars>>

\* the request rejects: the catch block rethrows or waits
RequestRejects ==
    /\ pc = "await"
    /\ lastOutcome' = TransportFailure
    /\ IF CatchRethrows(attempt)
       THEN Throw(op, TransportError) /\ UNCHANGED waits
       ELSE WaitAndRetry
    /\ UNCHANGED <<apiKey, op, limit, maxPages, loopVars, url, attempt, requests>>
    /\ UNCHANGED <<query, pageVars>>

\* a response with a status that is not ok: waits and continues when the
\* status is retriable and attempts remain; otherwise throws inside the try
\* block, so the catch block rethrows or waits
RespondNotOk(status) ==
    /\ pc = "await"
    /\ ~IsOk(status)
    /\ lastOutcome' = status
    /\ IF RetriesStatus(status, attempt)
       THEN WaitAndRetry
       ELSE IF CatchRethrows(attempt)
            THEN Throw(op, StatusError(status)) /\ UNCHANGED waits
            ELSE WaitAndRetry
    /\ UNCHANGED <<apiKey, op, limit, maxPages, loopVars, url, attempt, requests>>
    /\ UNCHANGED <<query, pageVars>>

\* variant: the attempts of the previous call count against this one
EnterFetchWithRetry_SharedCount(u) ==
    /\ url' = u
    /\ UNCHANGED <<attempt, requests>>
    /\ lastOutcome' = Undefined
    /\ waits' = <<>>
    /\ pc' = "retry"

\* fetchWithRetry is entered: let attempt = 0
EnterFetchWithRetry(u) ==
    /\ url' = u
    /\ attempt' = 0
    /\ requests' = 0
    /\ lastOutcome' = Undefined
    /\ waits' = <<>>
    /\ pc' = "retry"

(***************************************************************************)
(* Texts and numbers                                                       *)
(*                                                                         *)
(* A text is a sequence of characters.  A number is held in hundredths     *)
(* (12050 is 120.5), which is exact for the decimal texts with at most two *)
(* fraction digits that the model feeds in; texts in exponent, hexadecimal *)
(* or Infinity notation are not fed in.                                    *)
(***************************************************************************)
Digits == <<"0", "1", "2", "3", "4", "5", "6", "7", "8", "9">>

IsDigit(c) == \E i \in 1 .. 10 : Digits[i] = c

DigitValue(c) == (CHOOSE i \in 1 .. 10 : Digits[i] = c) - 1

\* null
Null == [ok |-> FALSE]

\* a number, in hundredths
Num(v) == [ok |-> TRUE, value |-> v]

\* n units as a number of hundredths
Units(n) == n * 100

\* value.trim()
RECURSIVE TrimLeft(_)
TrimLeft(t) == IF t # <<>> /\ Head(t) = " " THEN TrimLeft(Tail(t)) ELSE t

RECURSIVE TrimRight(_)
TrimRight(t) ==
    IF t # <<>> /\ t[Len(t)] = " " THEN TrimRight(SubSeq(t, 1, Len(t) - 1)) ELSE t

Trim(t) == TrimRight(TrimLeft(t))

\* the position of the first c in t, 0 when there is none
IndexOf(t, c) ==
    IF \E i \in 1 .. Len(t) : t[i] = c
    THEN CHOOSE i \in 1 .. Len(t) : t[i] = c /\ \A j \in 1 .. i - 1 : t[j] # c
    ELSE 0

AllDigits(t) == \A i \in 1 .. Len(t) : IsDigit(t[i])

\* the value of a digit string
RECURSIVE DigitsValue(_)
DigitsValue(t) ==
    IF t = <<>> THEN 0
    ELSE 10 * DigitsValue(SubSeq(t, 1, Len(t) - 1)) + DigitValue(t[Len(t)])

\* the hundredths a fraction digit string stands for
FractionValue(t) ==
    IF Len(t) = 0 THEN 0
    ELSE IF Len(t) = 1 THEN 10 * DigitValue(t[1])
    ELSE 10 * DigitValue(t[1]) + DigitValue(t[2])

\* digits, and an optional point with digits; anything else is NaN
Decimal(whole, fraction) ==
    IF /\ AllDigits(whole)
       /\ AllDigits(fraction)
       /\ Len(whole) + Len(fraction) > 0
       /\ Len(fraction) <= 2
    THEN Num(Units(DigitsValue(whole)) + FractionValue(fraction))
    ELSE Null

\* an unsigned text cut at its decimal point, which is at position dot
DecimalAt(body, dot) ==
    IF dot = 0 THEN Decimal(body, <<>>)
    ELSE Decimal(SubSeq(body, 1, dot - 1), SubSeq(body, dot + 1, Len(body)))

Unsigned(body) == DecimalAt(body, IndexOf(body, "."))

Negated(n) == IF n.ok THEN Num(0 - n.value) ELSE n

\* Number(trimmed) of a text that is not empty: an optional sign, then an
\* unsigned decimal
ToNumber(t) ==
    IF Head(t) = "-" THEN Negated(Unsigned(Tail(t)))
    ELSE IF Head(t) = "+" THEN Unsigned(Tail(t))
    ELSE Unsigned(t)

\* Number(trimmed), null when trimmed is empty or the number is not finite
NumberOrNull(trimmed) == IF trimmed = <<>> THEN Null ELSE ToNumber(trimmed)

\* parseNumber(value)
parseNumber(value) == NumberOrNull(Trim(value))

\* the decimal digits of a natural number
RECURSIVE NatText(_)
NatText(n) ==
    IF n < 10 THEN <<Digits[n + 1]>>
    ELSE Append(NatText(n \div 10), Digits[(n % 10) + 1])

\* the fraction digits of String(number), without trailing zeros
FractionText(hundredths) ==
    IF hundredths = 0 THEN <<>>
    ELSE IF hundredths % 10 = 0 THEN <<".", Digits[(hundredths \div 10) + 1]>>
    ELSE <<".", Digits[(hundredths \div 10) + 1], Digits[(hundredths % 10) + 1]>>

MagnitudeText(magnitude) ==
    NatText(magnitude \div 100) \o FractionText(magnitude % 100)

\* String(number): the shortest decimal text of a number
NumberText(v) ==
    IF v < 0 THEN <<"-">> \o MagnitudeText(0 - v) ELSE MagnitudeText(v)

(***************************************************************************)
(* The query of GET /api/patients                                          *)
(***************************************************************************)
\* Number(text): 0 for a text that is empty once trimmed
NumberOfText(trimmed) == IF trimmed = <<>> THEN Num(0) ELSE ToNumber(trimmed)

\* Number(raw): 0 for null
NumberOf(raw) == IF ~raw.present THEN Num(0) ELSE NumberOfText(Trim(raw.text))

\* Math.trunc of a number in hundredths, as an integer
Trunc(v) == IF v >= 0 THEN v \div 100 ELSE 0 - ((0 - v) \div 100)

Max(a, b) == IF a >= b THEN a ELSE b

\* clampLimit, once raw is converted
ClampParsed(parsed) ==
    IF ~parsed.ok THEN 5 ELSE Min(Max(Trunc(parsed.value), 1), 20)

\* clampLimit(raw)
clampLimit(raw) == ClampParsed(NumberOf(raw))

\* parseMaxPages, once raw is converted
MaxPagesParsed(parsed) == IF ~parsed.ok THEN 10 ELSE Max(Trunc(parsed.value), 1)

\* parseMaxPages(raw)
parseMaxPages(raw) == MaxPagesParsed(NumberOf(raw))

\* the queries of the requests whose pagination the model follows: limit 20,
\* as the page asks for, and maxPages from 1 to the bound
RouteQueries ==
    [limit : {Param(<<"2", "0">>)},
     maxPages : {Param(NumberText(Units(n))) : n \in 1 .. MaxPagesBound}]


(***************************************************************************)
(* fetchAllPatients and the GET route                                      *)
(***************************************************************************)
\* buildPatientsUrl(page, limit)
buildPatientsUrl(p, l) == [path |-> "/patients", page |-> p, limit |-> l]

\* variant: the loop ignores the page ceiling
LoopContinues_NoCeiling(h, p, mp) == h

\* while (hasNext && page <= maxPages)
LoopContinues(h, p, mp) == h /\ p <= mp

\* variant: totalPages is consulted before the hasNext flag
InferredHasNext_TotalFirst(flag, tp, pageNumber, len, p, mp) ==
    IF tp # Undefined
    THEN pageNumber < tp
    ELSE IF flag # "undefined"
         THEN flag = "true"
         ELSE len > 0 /\ p < mp

\* variant: the fallback ignores the page ceiling
InferredHasNext_NoCeiling(flag, tp, pageNumber, len, p, mp) ==
    IF flag # "undefined"
    THEN flag = "true"
    ELSE IF tp # Undefined
         THEN pageNumber < tp
         ELSE len > 0

\* variant: the fallback ignores whether the page was empty
InferredHasNext_NoEmptyCheck(flag, tp, pageNumber, len, p, mp) ==
    IF flag # "undefined"
    THEN flag = "true"
    ELSE IF tp # Undefined
         THEN pageNumber < tp
         ELSE p < mp

\* payload.pagination?.hasNext, the remembered totalPages, the page number,
\* pageData.length, page and maxPages give inferredHasNext
InferredHasNext(flag, tp, pageNumber, len, p, mp) ==
    IF flag # "undefined"
    THEN flag = "true"
    ELSE IF tp # Undefined
         THEN pageNumber < tp
         ELSE len > 0 /\ p < mp

\* totalPages: totalPages ?? pagesFetched
ResultTotalPages(tp, pf) == Coalesce(tp, pf)

\* the object fetchAllPatients returns
FetchResult ==
    [returned |-> TRUE,
     patients |-> patients,
     pagesFetched |-> pagesFetched,
     totalPages |-> ResultTotalPages(totalPages, pagesFetched),
     limit |-> limit]

\* NextResponse.json({ data, meta }) of the GET route
PatientsResponse(r) ==
    [sent |-> TRUE,
     status |-> 200,
     data |-> r.patients,
     meta |-> [count |-> Len(r.patients),
               pagesFetched |-> r.pagesFetched,
               totalPages |-> r.totalPages,
               limit |-> r.limit]]

\* GET /api/patients: fetchAllPatients({ limit, maxPages }) is called; it
\* reads the API key and initialises the loop
GET(e, q) ==
    /\ pc = "idle"
    /\ query' = q
    /\ limit' = clampLimit(q.limit)
    /\ maxPages' = parseMaxPages(q.maxPages)
    /\ apiKey' = EnvKey(e)
    /\ op' = "fetchAllPatients"
    /\ IF KeyMissing(apiKey')
       THEN /\ Throw("fetchAllPatients", ConfigError)
            /\ UNCHANGED <<page, pagesFetched, hasNext>>
       ELSE /\ page' = 1
            /\ pagesFetched' = 0
            /\ hasNext' = TRUE
            /\ pc' = "loop"
            /\ UNCHANGED <<result, error, routeResponse>>
    /\ UNCHANGED <<totalPages, patients, payload, served, callVars>>
    /\ UNCHANGED pageVars

\* the head of the while loop of fetchAllPatients: the next page is requested
\* through fetchWithRetry, or the loop ends, the result is returned and the
\* route answers with it
FetchAllLoop ==
    /\ pc = "loop"
    /\ IF LoopContinues(hasNext, page, maxPages)
       THEN /\ EnterFetchWithRetry(buildPatientsUrl(page, limit))
            /\ payload' = NoPayload
            /\ UNCHANGED <<result, error, routeResponse>>
       ELSE /\ result' = FetchResult
            /\ routeResponse' = PatientsResponse(FetchResult)
            /\ pc' = "done"
            /\ UNCHANGED <<payload, callVars, error>>
    /\ UNCHANGED <<apiKey, op, limit, maxPages, page, pagesFetched, hasNext,
                   totalPages, patients, served>>
    /\ UNCHANGED <<query, pageVars>>

\* fetchWithRetry returns the ok response to the loop of fetchAllPatients:
\* what the call used stays on record until the next call starts its own count
LeaveFetchWithRetry(status) ==
    /\ lastOutcome' = status
    /\ UNCHANGED <<url, attempt, requests, waits>>

\* an ok response to a page request: fetchWithRetry returns it, the body is
\* parsed and the loop variables are updated
RespondOkPage(status, body) ==
    /\ pc = "await"
    /\ op = "fetchAllPatients"
    /\ IsOk(status)
    /\ LeaveFetchWithRetry(status)
    /\ payload' = body
    /\ served' = Append(served, [data |-> body.data, records |-> body.records])
    /\ patients' = patients \o PageData(body)
    /\ totalPages' = Coalesce(body.totalPages, totalPages)
    /\ hasNext' = InferredHasNext(body.hasNext, totalPages',
                                  Coalesce(body.page, page),
                                  Len(PageData(body)), page, maxPages)
    /\ page' = page + 1
    /\ pagesFetched' = pagesFetched + 1
    /\ pc' = "loop"
    /\ UNCHANGED <<apiKey, op, limit, maxPages, result, error, routeResponse>>
    /\ UNCHANGED <<query, pageVars>>

\* an ok response whose body is no JSON: response.json() rejects outside
\* fetchWithRetry, so the library call fails without a retry
RespondOkNoJson(status) ==
    /\ pc = "await"
    /\ IsOk(status)
    /\ lastOutcome' = status
    /\ Throw(op, JsonError)
    /\ UNCHANGED <<apiKey, op, limit, maxPages, loopVars, url, attempt,
                   requests, waits>>
    /\ UNCHANGED <<query, pageVars>>

(***************************************************************************)
(* submitAssessment and the POST route                                     *)
(***************************************************************************)
SubmitUrl == [path |-> "/submit-assessment"]

\* POST /api/submit-assessment: submitAssessment(payload) is called; it reads
\* the API key and posts through fetchWithRetry
POST(e) ==
    /\ pc = "idle"
    /\ apiKey' = EnvKey(e)
    /\ op' = "submitAssessment"
    /\ IF KeyMissing(apiKey')
       THEN /\ Throw("submitAssessment", ConfigError)
            /\ UNCHANGED callVars
       ELSE /\ EnterFetchWithRetry(SubmitUrl)
            /\ UNCHANGED <<result, error, routeResponse>>
    /\ UNCHANGED <<limit, maxPages, loopVars>>
    /\ UNCHANGED <<query, pageVars>>

\* an ok response to the POST: its parsed body is returned and passed on
RespondOkSubmit(status) ==
    /\ pc = "await"
    /\ op = "submitAssessment"
    /\ IsOk(status)
    /\ lastOutcome' = status
    /\ result' = [returned |-> TRUE]
    /\ routeResponse' = [sent |-> TRUE, status |-> 200]
    /\ pc' = "done"
    /\ UNCHANGED <<apiKey, op, limit, maxPages, loopVars, url, attempt,
                   requests, waits, error>>
    /\ UNCHANGED <<query, pageVars>>

Next ==
    \/ \E e \in Envs, q \in RouteQueries : GET(e, q)
    \/ \E e \in Envs : POST(e)
    \/ FetchAllLoop
    \/ FetchAttempt
    \/ RequestRejects
    \/ \E s \in Statuses : RespondNotOk(s)
    \/ \E s \in Statuses, body \in Payloads(page) : RespondOkPage(s, body)
    \/ \E s \in Statuses : RespondOkNoJson(s)
    \/ \E s \in Statuses : RespondOkSubmit(s)

Spec == Init /\ [][Next]_vars

TypeOK ==
    /\ pc \in {"idle", "loop", "retry", "await", "done"}
    /\ op \in {"none", "fetchAllPatients", "submitAssessment"}
    /\ apiKey \in EnvValues
    /\ attempt \in Nat
    /\ requests \in Nat
    /\ hasNext \in BOOLEAN
    /\ lastOutcome \in {Undefined, TransportFailure} \cup Statuses

(***************************************************************************)
(* Properties of fetchWithRetry                                            *)
(***************************************************************************)
\* the last finished request of the call was answered with a status that is
\* neither ok nor one of 429, 500, 503
NonRetriableAnswer ==
    /\ lastOutcome \in Statuses
    /\ ~IsOk(lastOutcome)
    /\ lastOutcome \notin {429, 500, 503}

\* attempt number `attempt` has just ended in 429, 500, 503 or in a transport
\* failure (while a request is in flight lastOutcome is the previous one's)
RetriableFailure ==
    /\ pc # "await"
    /\ lastOutcome \in {429, 500, 503, TransportFailure}

\* C1: a response with a non-success status other than 429, 500, 503 ends the
\* call at once with an error carrying that status: no backoff wait and no
\* further request follow it, at whichever attempt it arrives.
C1_NonRetriableStatusIsTerminal ==
    NonRetriableAnswer =>
        /\ pc = "done"
        /\ error = StatusError(lastOutcome)
        /\ requests = attempt
        /\ Len(waits) = attempt - 1

\* C2: one fetchWithRetry call issues at most 5 requests, and when the 5th
\* request fails too (any status that is not ok, or a transport failure) the
\* call has ended in an error: there is no wait and no 6th request.
C2_AtMostFiveRequests ==
    /\ requests <= 5
    /\ attempt <= 5
    /\ (requests = 5 /\ pc # "await" /\ ~IsOk(lastOutcome)) =>
           /\ pc = "done"
           /\ error.thrown
           /\ error \in {StatusError(lastOutcome), TransportError}
           /\ Len(waits) = 4

\* C2 witness: the fifth consecutive 500 has ended the call in an error.
C2_Witness ==
    /\ requests = 5
    /\ lastOutcome = 500
    /\ pc = "done"
    /\ error = StatusError(500)
    /\ waits = <<300, 600, 1200, 2400>>

\* the delays the claim lists, in order
C3_Delays == <<300, 600, 1200, 2400>>

\* 300 + 600 + ... over a sequence
RECURSIVE SumSeq(_)
SumSeq(q) == IF q = <<>> THEN 0 ELSE Head(q) + SumSeq(Tail(q))

\* C3: after attempt n (1 <= n <= 4) ended in 429, 500, 503 or a transport
\* failure the call has waited exactly min(300 * 2^(n-1), 4000) ms, so that
\* the waits of a call are 300, 600, 1200, 2400 in this order, one per failed
\* attempt, and the next step issues attempt n+1; no wait follows the attempt
\* that ended the call; a call that succeeds at its third request has waited
\* 300 + 600 = 900 ms.
C3_BackoffSchedule ==
    /\ [](/\ Len(waits) <= 4
          /\ \A i \in 1 .. Len(waits) : waits[i] = C3_Delays[i]
          /\ (RetriableFailure /\ attempt \in 1 .. 4) =>
                 /\ pc = "retry"
                 /\ Len(waits) = attempt
                 /\ waits[attempt] = C3_Delays[attempt]
          /\ (pc \in {"await", "done"} /\ requests >= 1) =>
                 Len(waits) = attempt - 1
          /\ (pc = "done" /\ result.returned /\ requests = 3) =>
                 SumSeq(waits) = 900)
    /\ [][(pc = "retry" /\ attempt \in 1 .. 4) =>
              /\ pc' = "await"
              /\ attempt' = attempt + 1
              /\ requests' = requests + 1
              /\ waits' = waits]_vars

\* C3 witness: the third request of a call succeeded after two failed ones,
\* the call having waited 300 ms and then 600 ms.
C3_Witness ==
    /\ pc = "done"
    /\ result.returned
    /\ requests = 3
    /\ lastOutcome = 200
    /\ waits = <<300, 600>>
    /\ SumSeq(waits) = 900

(***************************************************************************)
(* Properties of fetchAllPatients and of the routes                        *)
(***************************************************************************)
\* a page has just been processed: payload is its parsed body, and page has
\* already been incremented past the page that was requested
PageProcessed == op = "fetchAllPatients" /\ payload.present

\* the page the last processed response was requested for
RequestedPage == page - 1

\* the page number of the last processed response: the reported one, or the
\* requested one when none is reported
PageNumber == IF payload.page # Undefined THEN payload.page ELSE RequestedPage

\* the last processed response has a non-empty record array
PageNonEmpty == payload.data = "full" /\ Len(payload.records) > 0

\* C4: after a successful page whose pagination carries a hasNext boolean the
\* loop's hasNext is that boolean, whatever totalPages and page it reports
\* and whether or not its record set is empty; when hasNext is absent and a
\* totalPages is known, hasNext is (page number < totalPages).
C4_ExplicitHasNextWins ==
    PageProcessed =>
        /\ payload.hasNext = "true" => hasNext = TRUE
        /\ payload.hasNext = "false" => hasNext = FALSE
        /\ (payload.hasNext = "undefined" /\ totalPages # Undefined) =>
               hasNext = (PageNumber < totalPages)

\* C4 witness: an empty page that reports hasNext = true together with a
\* totalPages that the page number has already reached; the loop goes on.
C4_Witness ==
    /\ PageProcessed
    /\ payload.hasNext = "true"
    /\ payload.data = "empty"
    /\ payload.totalPages # Undefined
    /\ PageNumber >= payload.totalPages
    /\ hasNext = TRUE

\* C5 as stated: after every successful page whose response carries neither
\* hasNext nor totalPages, hasNext is true exactly when the page was not
\* empty and the requested page is below maxPages, whatever earlier pages
\* reported.
C5_FallbackAloneOnEveryPage ==
    (PageProcessed /\ payload.hasNext = "undefined"
                   /\ payload.totalPages = Undefined) =>
        hasNext = (PageNonEmpty /\ RequestedPage < maxPages)

\* C5 amended: after a successful page whose response carries neither hasNext
\* nor totalPages, hasNext is decided by the fallback alone (page not empty
\* and requested page < maxPages) provided no earlier page of the run
\* reported a totalPages; when one did, the remembered totalPages decides:
\* hasNext is (page number < remembered totalPages).
C5_FallbackUnlessTotalPagesRemembered ==
    (PageProcessed /\ payload.hasNext = "undefined"
                   /\ payload.totalPages = Undefined) =>
        IF totalPages = Undefined
        THEN hasNext = (PageNonEmpty /\ RequestedPage < maxPages)
        ELSE hasNext = (PageNumber < totalPages)

\* C5 witness: a second page without hasNext and totalPages, after a first
\* page that reported a totalPages; the remembered value keeps the loop going
\* although the page ceiling is reached.
C5_Witness ==
    /\ PageProcessed
    /\ pagesFetched = 2
    /\ payload.hasNext = "undefined"
    /\ payload.totalPages = Undefined
    /\ totalPages # Undefined
    /\ RequestedPage = maxPages
    /\ hasNext = TRUE

\* C6: no request is made for a page above maxPages, pagesFetched never
\* exceeds maxPages, and a run that ends with hasNext still true (the remote
\* said hasNext = true to the end) returns normally with exactly maxPages
\* pages fetched.
C6_PageCeiling ==
    /\ url.path = "/patients" => url.page \in 1 .. maxPages
    /\ pagesFetched <= maxPages
    /\ (op = "fetchAllPatients" /\ result.returned) =>
           result.pagesFetched <= maxPages
    /\ (op = "fetchAllPatients" /\ pc = "done" /\ ~error.thrown /\ hasNext) =>
           /\ result.returned
           /\ result.pagesFetched = maxPages
           /\ routeResponse.status = 200

\* C6 witness: the remote said hasNext = true on the last page too, and the
\* run returned after maxPages = 2 pages.
C6_Witness ==
    /\ op = "fetchAllPatients"
    /\ pc = "done"
    /\ result.returned
    /\ payload.hasNext = "true"
    /\ hasNext
    /\ maxPages = 2
    /\ result.pagesFetched = 2
    /\ ~error.thrown

\* the first page has been processed and its record set was empty or missing
FirstPageEmpty ==
    /\ PageProcessed
    /\ pagesFetched = 1
    /\ payload.data \in {"missing", "empty"}

\* no second page is requested and the result has no record, one page
OnlyFirstPage ==
    /\ pc = "loop" => ~(hasNext /\ page <= maxPages)
    /\ pc = "done" =>
           /\ result.returned
           /\ result.patients = <<>>
           /\ result.pagesFetched = 1

\* C7 as stated: an empty (or missing) record set on the first page ends the
\* run: zero records, pagesFetched = 1, no second request.
C7_EmptyFirstPageEndsRun == FirstPageEmpty => OnlyFirstPage

\* the pagination of the last processed response announces a further page
AnnouncesNextPage ==
    \/ payload.hasNext = "true"
    \/ /\ payload.hasNext = "undefined"
       /\ payload.totalPages # Undefined
       /\ PageNumber < payload.totalPages

\* C7 amended: an empty (or missing) record set on the first page ends the
\* run with zero records and pagesFetched = 1, unless the response's
\* pagination announces a further page (hasNext = true, or hasNext absent and
\* page number < totalPages) and maxPages is above 1.
C7_EmptyFirstPageEndsRunUnlessAnnounced ==
    (FirstPageEmpty /\ (~AnnouncesNextPage \/ maxPages = 1)) => OnlyFirstPage

\* C7 witness: the first page came without records and without pagination,
\* with a second page allowed, and the run returned nothing after one page.
C7_Witness ==
    /\ FirstPageEmpty
    /\ payload.hasNext = "undefined"
    /\ payload.totalPages = Undefined
    /\ maxPages = 2
    /\ pc = "done"
    /\ result.returned
    /\ result.patients = <<>>
    /\ result.pagesFetched = 1

\* C8: a run stopped by the page ceiling with hasNext still true returns
\* pagesFetched < totalPages, and a run that ended because hasNext became
\* false never returns pagesFetched > totalPages.
C8_TruncationIsDetectable ==
    (op = "fetchAllPatients" /\ pc = "done" /\ result.returned) =>
        /\ hasNext => result.pagesFetched < result.totalPages
        /\ ~hasNext => result.pagesFetched <= result.totalPages

\* C9: once the request for a page has ended in a terminal error the whole
\* call has failed with that error: nothing is returned, the records of the
\* earlier pages are not delivered, no further request is made, and the GET
\* route answers with status 500 and no data field.
C9_PageFailureFailsTheBatch ==
    /\ [](( op = "fetchAllPatients" /\ error.thrown) =>
            /\ pc = "done"
            /\ ~result.returned
            /\ routeResponse.sent
            /\ routeResponse.status = 500
            /\ "data" \notin DOMAIN routeResponse
            /\ "meta" \notin DOMAIN routeResponse
            /\ routeResponse.message = error.kind)
    /\ [][error.thrown => UNCHANGED vars]_vars

\* C9 witness: the request for page 2 failed for good after page 1 had
\* delivered a record.
C9_Witness ==
    /\ op = "fetchAllPatients"
    /\ error.thrown
    /\ error.kind \in {"status", "transport"}
    /\ url.path = "/patients"
    /\ url.page = 2
    /\ patients # <<>>
    /\ ~result.returned
    /\ routeResponse.status = 500

\* C10: with no API key in the environment (unset or empty) fetchAllPatients
\* and submitAssessment fail with the configuration error before any
\* request: no request, no attempt, no wait, no result.
C10_MissingKeyFailsBeforeAnyRequest ==
    (op # "none" /\ apiKey \in {"undefined", ""}) =>
        /\ pc = "done"
        /\ error = ConfigError
        /\ requests = 0
        /\ attempt = 0
        /\ waits = <<>>
        /\ url = NoUrl
        /\ ~result.returned

\* C10 witness: submitAssessment was called with DEMOMED_API_KEY set to the
\* empty string and failed without a request.
C10_Witness ==
    /\ op = "submitAssessment"
    /\ apiKey = ""
    /\ error = ConfigError
    /\ requests = 0

\* the records a served data field holds: those of an array, none otherwise
ServedRecords(d) == IF d.data = "full" THEN d.records ELSE <<>>

\* the served record arrays one after the other, in page order
RECURSIVE ServedConcat(_)
ServedConcat(q) ==
    IF q = <<>> THEN <<>> ELSE ServedRecords(Head(q)) \o ServedConcat(Tail(q))

\* C11: a returned result holds exactly the record arrays of the successfully
\* fetched pages one after the other in page order, a page whose data is
\* missing or no array adding nothing, and pagesFetched counts every such
\* page, the empty ones too.
C11_RecordsAreThePagesInOrder ==
    (op = "fetchAllPatients" /\ result.returned) =>
        /\ result.patients = ServedConcat(served)
        /\ result.pagesFetched = Len(served)
        /\ routeResponse.data = ServedConcat(served)
        /\ routeResponse.meta.count = Len(ServedConcat(served))

\* C11 witness: two full pages, then an empty page that says hasNext = false:
\* the records of pages 1 and 2, three pages fetched.
C11_Witness ==
    /\ op = "fetchAllPatients"
    /\ result.returned
    /\ Len(served) = 3
    /\ served[1].data = "full"
    /\ served[2].data = "full"
    /\ served[3].data = "empty"
    /\ payload.hasNext = "false"
    /\ result.patients = <<1, 2>>
    /\ result.pagesFetched = 3

(***************************************************************************)
(* The scoring functions                                                   *)
(***************************************************************************)
\* 101 degrees, in hundredths
HIGH_FEVER_THRESHOLD == Units(101)

\* the return statement of getBloodPressureScore that is taken, for the two
\* parsed readings
BloodPressureBand(systolic, diastolic) ==
    IF ~systolic.ok \/ ~diastolic.ok THEN "invalid"
    ELSE IF systolic.value >= Units(140) \/ diastolic.value >= Units(90)
         THEN "stage2"
    ELSE IF \/ (systolic.value >= Units(130) /\ systolic.value <= Units(139))
            \/ (diastolic.value >= Units(80) /\ diastolic.value <= Units(89))
         THEN "stage1"
    ELSE IF /\ systolic.value >= Units(120)
            /\ systolic.value <= Units(129)
            /\ diastolic.value < Units(80)
         THEN "elevated"
    ELSE IF systolic.value < Units(120) /\ diastolic.value < Units(80)
         THEN "normal"
    ELSE "fallthrough"

\* the value that return statement returns
BloodPressureBandScore(band) ==
    CASE band = "stage2" -> 4
      [] band = "stage1" -> 3
      [] band = "elevated" -> 2
      [] band = "normal" -> 1
      [] OTHER -> 0

getBloodPressureScore(systolicValue, diastolicValue) ==
    BloodPressureBandScore(
        BloodPressureBand(parseNumber(systolicValue), parseNumber(diastolicValue)))

\* the return statement of getTemperatureScore that is taken, for the parsed
\* temperature
TemperatureBand(temperature) ==
    IF ~temperature.ok THEN "invalid"
    ELSE IF temperature.value >= HIGH_FEVER_THRESHOLD THEN "high"
    ELSE IF temperature.value >= 9960 /\ temperature.value <= 10090 THEN "low"
    ELSE IF temperature.value <= 9950 THEN "normal"
    ELSE "fallthrough"

TemperatureBandScore(band) ==
    CASE band = "high" -> 2
      [] band = "low" -> 1
      [] OTHER -> 0

getTemperatureScore(temperatureValue) ==
    TemperatureBandScore(TemperatureBand(parseNumber(temperatureValue)))

\* variant: 65 already counts as over 65
AgeBand_From65(age) ==
    IF ~age.ok \/ age.value < 0 THEN "invalid"
    ELSE IF age.value >= Units(65) THEN "over65"
    ELSE IF age.value >= Units(40) THEN "from40"
    ELSE IF age.value < Units(40) THEN "under40"
    ELSE "fallthrough"

\* the return statement of getAgeScore that is taken, for the parsed age
AgeBand(age) ==
    IF ~age.ok \/ age.value < 0 THEN "invalid"
    ELSE IF age.value > Units(65) THEN "over65"
    ELSE IF age.value >= Units(40) THEN "from40"
    ELSE IF age.value < Units(40) THEN "under40"
    ELSE "fallthrough"

AgeBandScore(band) ==
    CASE band = "over65" -> 2
      [] band = "from40" -> 1
      [] band = "under40" -> 1
      [] OTHER -> 0

getAgeScore(ageValue) == AgeBandScore(AgeBand(parseNumber(ageValue)))

\* the ScoreBreakdown of three scores
Breakdown(bloodPressure, temperature, age) ==
    [present |-> TRUE,
     bloodPressure |-> bloodPressure,
     temperature |-> temperature,
     age |-> age,
     total |-> bloodPressure + temperature + age]

\* calculateScores(inputs)
calculateScores(in) ==
    Breakdown(getBloodPressureScore(in.systolic, in.diastolic),
              getTemperatureScore(in.temperature),
              getAgeScore(in.age))

(***************************************************************************)
(* The form: the texts typed into the four fields, and the calculation     *)
(***************************************************************************)
SystolicTexts ==
    {<<"1", "1", "9">>,
     <<"1", "2", "0">>,
     <<"1", "2", "9">>,
     <<"1", "2", "9", ".", "5">>,
     <<"1", "3", "0">>,
     <<"1", "3", "9">>,
     <<"1", "3", "9", ".", "5">>,
     <<"1", "4", "0">>,
     <<" ", "1", "2", "0", " ">>,
     <<"a", "b", "c">>,
     <<>>}

DiastolicTexts ==
    {<<"7", "0">>,
     <<"7", "9">>,
     <<"7", "9", ".", "5">>,
     <<"8", "0">>,
     <<"8", "9">>,
     <<"8", "9", ".", "5">>,
     <<"9", "0">>,
     <<"x">>}

TemperatureTexts ==
    {<<"9", "8", ".", "6">>,
     <<"9", "9", ".", "5">>,
     <<"9", "9", ".", "5", "5">>,
     <<"9", "9", ".", "6">>,
     <<"1", "0", "0", ".", "0">>,
     <<"1", "0", "0", ".", "9">>,
     <<"1", "0", "0", ".", "9", "5">>,
     <<"1", "0", "1">>,
     <<"1", "0", "2", ".", "5">>,
     <<"a", "b", "c">>,
     <<>>}

AgeTexts ==
    {<<"7", "0">>,
     <<"6", "6">>,
     <<"6", "5", ".", "5">>,
     <<"6", "5">>,
     <<"5", "0">>,
     <<"4", "0">>,
     <<"3", "9", ".", "5">>,
     <<"1", "0">>,
     <<"0">>,
     <<"-", "5">>,
     <<"a", "b", "c">>,
     <<>>}

\* the form with its four fields filled in, nothing calculated yet
FormInit ==
    /\ FetchIdle
    /\ ClassifierIdle
    /\ inputs \in [systolic : SystolicTexts, diastolic : DiastolicTexts,
                   temperature : TemperatureTexts, age : AgeTexts]
    /\ scoreResult = [present |-> FALSE]

\* handleSubmit: setResult(calculateScores(inputs))
handleSubmit ==
    /\ scoreResult' = calculateScores(inputs)
    /\ UNCHANGED <<inputs, classifierVars, fetchVars>>

FormNext == handleSubmit

FormSpec == FormInit /\ [][FormNext]_vars

(***************************************************************************)
(* The scoring functions: properties                                       *)
(***************************************************************************)
\* s2 is at least s1, both read as numbers
AtLeast(s2, s1) ==
    /\ parseNumber(s1).ok
    /\ parseNumber(s2).ok
    /\ parseNumber(s2).value >= parseNumber(s1).value

\* C12: for every parsable pair of readings, decimals included, the blood
\* pressure score is one of 0..4 and never goes down when the systolic reading
\* is raised with the diastolic reading fixed, or the diastolic reading is
\* raised with the systolic reading fixed.
C12_BloodPressureScoreMonotone ==
    (/\ scoreResult.present
     /\ parseNumber(inputs.systolic).ok
     /\ parseNumber(inputs.diastolic).ok) =>
        /\ scoreResult.bloodPressure \in 0 .. 4
        /\ \A s \in SystolicTexts :
               AtLeast(s, inputs.systolic) =>
                   getBloodPressureScore(s, inputs.diastolic)
                       >= scoreResult.bloodPressure
        /\ \A d \in DiastolicTexts :
               AtLeast(d, inputs.diastolic) =>
                   getBloodPressureScore(inputs.systolic, d)
                       >= scoreResult.bloodPressure

\* C13: the age score is 2 for every age over 65, 1 for every age from 0 to 65
\* (0, 40 and 65 included) and 0 for a negative or unparsable age; the last
\* return of getAgeScore is never reached; the scores of 70, 50, 10 and -5 are
\* 2, 1, 1 and 0.
C13_AgeBands ==
    scoreResult.present =>
        LET age == parseNumber(inputs.age)
        IN  /\ (age.ok /\ age.value > Units(65)) => scoreResult.age = 2
            /\ (age.ok /\ age.value >= 0 /\ age.value <= Units(65)) =>
                   scoreResult.age = 1
            /\ (~age.ok \/ age.value < 0) => scoreResult.age = 0
            /\ AgeBand(parseNumber(inputs.age)) # "fallthrough"
            /\ inputs.age = <<"7", "0">> => scoreResult.age = 2
            /\ inputs.age = <<"6", "5">> => scoreResult.age = 1
            /\ inputs.age = <<"5", "0">> => scoreResult.age = 1
            /\ inputs.age = <<"4", "0">> => scoreResult.age = 1
            /\ inputs.age = <<"1", "0">> => scoreResult.age = 1
            /\ inputs.age = <<"0">> => scoreResult.age = 1
            /\ inputs.age = <<"-", "5">> => scoreResult.age = 0
            /\ inputs.age = <<"a", "b", "c">> => scoreResult.age = 0

\* the age 65 exactly has been scored 1
C13_Witness ==
    /\ scoreResult.present
    /\ inputs.age = <<"6", "5">>
    /\ scoreResult.age = 1

\* C14: the temperature score is 2 from 101 up, 1 from 99.6 to 100.9, 0 up to
\* 99.5 and 0 for unparsable text, and never goes down when the temperature is
\* raised, over all parsable decimal texts; the scores of 101, 100.0, 99.5
\* and "abc" are 2, 1, 0 and 0.
C14_TemperatureBandsMonotone ==
    scoreResult.present =>
        LET temperature == parseNumber(inputs.temperature)
        IN  /\ (temperature.ok /\ temperature.value >= Units(101)) =>
                   scoreResult.temperature = 2
            /\ (temperature.ok /\ temperature.value >= 9960
                               /\ temperature.value <= 10090) =>
                   scoreResult.temperature = 1
            /\ (temperature.ok /\ temperature.value <= 9950) =>
                   scoreResult.temperature = 0
            /\ ~temperature.ok => scoreResult.temperature = 0
            /\ inputs.temperature = <<"1", "0", "1">> =>
                   scoreResult.temperature = 2
            /\ inputs.temperature = <<"1", "0", "0", ".", "0">> =>
                   scoreResult.temperature = 1
            /\ inputs.temperature = <<"9", "9", ".", "5">> =>
                   scoreResult.temperature = 0
            /\ inputs.temperature = <<"a", "b", "c">> =>
                   scoreResult.temperature = 0
            /\ \A t \in TemperatureTexts :
                   AtLeast(t, inputs.temperature) =>
                       getTemperatureScore(t) >= scoreResult.temperature

(***************************************************************************)
(* The batch classifier: raw records                                       *)
(*                                                                         *)
(* A field of a raw record is a JSON value: a string, a number (in         *)
(* hundredths) or something else (null, absent, a boolean, an object).     *)
(***************************************************************************)
Str(t) == [type |-> "string", text |-> t, value |-> 0]

NumberValue(v) == [type |-> "number", text |-> EmptyText, value |-> v]

Other == [type |-> "other", text |-> EmptyText, value |-> 0]

\* records forEach is called with in the run the model follows
MaxRecords == 2

P1 == <<"P", "1">>

P2 == <<"P", "2">>

PatientIdValues == {Other, Str(EmptyText), Str(P1)}

IdValues == {Other, Str(EmptyText), Str(P2)}

\* blood pressure fields that are a 'systolic/diastolic' string with two
\* numeric halves
ValidBloodPressures ==
    {Str(<<"1", "5", "0", "/", "9", "5">>),
     Str(<<"1", "1", "0", "/", "7", "0">>),
     Str(<<" ", "1", "3", "5", "/", "8", "5", " ">>)}

\* blood pressure fields that are not
InvalidBloodPressures ==
    {Str(<<"b", "a", "d", "/", "d", "a", "t", "a">>),
     Str(<<"1", "2", "0", "/">>),
     Str(<<"/", "8", "0">>),
     Str(<<"1", "2", "0", "8", "0">>),
     NumberValue(12000),
     Other}

\* temperature fields that are numeric
ValidTemperatures ==
    {NumberValue(9860), NumberValue(9955), NumberValue(10000), NumberValue(10095),
     NumberValue(10150), Str(<<"9", "9", ".", "6">>)}

\* temperature fields that are not
InvalidTemperatures == {Str(<<"a", "b", "c">>), Str(EmptyText), Other}

\* age fields that are numeric and not negative
ValidAges == {NumberValue(7000), NumberValue(0), Str(<<"4", "5">>)}

\* age fields that are not
InvalidAges == {NumberValue(-500), Str(<<"-", "5">>), Str(<<"a", "b", "c">>), Other}

Patient(patientId, id, bloodPressure, temperature, age) ==
    [patient_id |-> patientId, id |-> id, blood_pressure |-> bloodPressure,
     temperature |-> temperature, age |-> age]

\* every combination of a few values of the three vitals
CombinedRecords ==
    {Patient(Str(P1), Other, bp, t, a) :
        bp \in {Str(<<"1", "5", "0", "/", "9", "5">>),
                Str(<<"1", "1", "0", "/", "7", "0">>),
                Str(<<"b", "a", "d", "/", "d", "a", "t", "a">>)},
        t \in {NumberValue(9860), NumberValue(10000), NumberValue(10150),
               Str(<<"a", "b", "c">>)},
        a \in {NumberValue(7000), Str(<<"4", "5">>), NumberValue(-500)}}

\* every value of one vital, the other two unremarkable
VariedRecords ==
    {Patient(Str(P1), Other, bp, NumberValue(9860), Str(<<"4", "5">>)) :
        bp \in ValidBloodPressures \cup InvalidBloodPressures}
    \cup
    {Patient(Str(P1), Other, Str(<<"1", "1", "0", "/", "7", "0">>), t, Str(<<"4", "5">>)) :
        t \in ValidTemperatures \cup InvalidTemperatures}
    \cup
    {Patient(Str(P1), Other, Str(<<"1", "1", "0", "/", "7", "0">>), NumberValue(9860), a) :
        a \in ValidAges \cup InvalidAges}

\* every shape of the two id fields, with alarming and with unremarkable vitals
IdentifiedRecords ==
    {Patient(pid, id, Str(<<"1", "5", "0", "/", "9", "5">>), NumberValue(10150), NumberValue(7000)) :
        pid \in PatientIdValues, id \in IdValues}
    \cup
    {Patient(pid, id, Str(<<"1", "1", "0", "/", "7", "0">>), NumberValue(9860), Str(<<"4", "5">>)) :
        pid \in PatientIdValues, id \in IdValues}

\* the entries of payload.data
Patients == CombinedRecords \cup VariedRecords \cup IdentifiedRecords

(***************************************************************************)
(* The batch classifier: parsing and normalizing a record                  *)
(***************************************************************************)
\* the text up to the first "/" of t, all of t when it has none
UpToSlashAt(t, slash) == IF slash = 0 THEN t ELSE SubSeq(t, 1, slash - 1)

UpToSlash(t) == UpToSlashAt(t, IndexOf(t, "/"))

\* the text after the "/" at position slash of t
AfterSlashAt(t, slash) == SubSeq(t, slash + 1, Len(t))

\* const [systolicRaw, diastolicRaw] = trimmed.split("/")
systolicRaw(trimmed) == UpToSlash(trimmed)

diastolicRaw(trimmed) == UpToSlash(AfterSlashAt(trimmed, IndexOf(trimmed, "/")))

InvalidReading == [valid |-> FALSE, systolic |-> EmptyText, diastolic |-> EmptyText]

\* the reading of two parsed halves
ReadingOf(systolic, diastolic) ==
    IF systolic.ok /\ diastolic.ok
    THEN [valid |-> TRUE,
          systolic |-> NumberText(systolic.value),
          diastolic |-> NumberText(diastolic.value)]
    ELSE InvalidReading

\* the reading of the two halves of the split
ReadingOfHalves(systolicHalf, diastolicHalf) ==
    IF systolicHalf = EmptyText \/ diastolicHalf = EmptyText THEN InvalidReading
    ELSE ReadingOf(parseNumber(systolicHalf), parseNumber(diastolicHalf))

\* the reading of raw.trim()
ReadingOfTrimmed(trimmed) ==
    IF IndexOf(trimmed, "/") = 0 THEN InvalidReading
    ELSE ReadingOfHalves(systolicRaw(trimmed), diastolicRaw(trimmed))

\* parseBloodPressureReading(raw); a null half is held as the empty text, which
\* is what the caller turns it into
parseBloodPressureReading(raw) ==
    IF raw.type # "string" THEN InvalidReading ELSE ReadingOfTrimmed(Trim(raw.text))

\* parseTemperatureValue(raw); a JSON number is always finite
parseTemperatureValue(raw) ==
    IF raw.type = "number" THEN Num(raw.value)
    ELSE IF raw.type = "string" THEN parseNumber(raw.text)
    ELSE Null

\* null for a negative number
NullIfNegative(parsed) == IF ~parsed.ok \/ parsed.value < 0 THEN Null ELSE parsed

\* parseAgeValue(raw)
parseAgeValue(raw) ==
    IF raw.type = "number" THEN NullIfNegative(Num(raw.value))
    ELSE IF raw.type = "string" THEN NullIfNegative(parseNumber(raw.text))
    ELSE Null

\* the id normalizePatient picks: the first of the two fields that is a string
PickId(patient) ==
    IF patient.patient_id.type = "string" THEN [ok |-> TRUE, text |-> patient.patient_id.text]
    ELSE IF patient.id.type = "string" THEN [ok |-> TRUE, text |-> patient.id.text]
    ELSE [ok |-> FALSE, text |-> EmptyText]

\* variant: the age is left out of the validity test
hasInvalid_WithoutAge(bp, temperature, age) == ~bp.valid \/ ~temperature.ok

\* normalizePatient: hasInvalid
hasInvalid(bp, temperature, age) == ~bp.valid \/ ~temperature.ok \/ ~age.ok

\* String(number), or "" for null
TextOrEmpty(number) == IF number.ok THEN NumberText(number.value) ELSE EmptyText

\* normalizePatient: bpScore
bpScoreOf(bp) ==
    IF bp.valid THEN getBloodPressureScore(bp.systolic, bp.diastolic) ELSE 0

\* the record normalizePatient returns; ok is FALSE for the null it returns
\* when there is no id
Normalized(id, bpScore, tempScore, ageScore, temperature, invalid) ==
    [ok |-> id.ok /\ id.text # EmptyText,
     id |-> id.text,
     bpScore |-> bpScore,
     tempScore |-> tempScore,
     ageScore |-> ageScore,
     total |-> bpScore + tempScore + ageScore,
     temperature |-> temperature,
     hasInvalid |-> invalid]

\* normalizePatient, once the three vitals are parsed
NormalizedOf(id, bp, temperature, age) ==
    Normalized(id,
               bpScoreOf(bp),
               getTemperatureScore(TextOrEmpty(temperature)),
               getAgeScore(TextOrEmpty(age)),
               temperature,
               hasInvalid(bp, temperature, age))

normalizePatient(patient) ==
    NormalizedOf(PickId(patient),
                 parseBloodPressureReading(patient.blood_pressure),
                 parseTemperatureValue(patient.temperature),
                 parseAgeValue(patient.age))

(***************************************************************************)
(* The batch classifier: fetchPatients                                     *)
(***************************************************************************)
\* variant: every record counts as new
IsDuplicate_Never(id, seenIds) == FALSE

\* seen.has(normalized.id)
IsDuplicate(id, seenIds) == id \in seenIds

\* variant: a total of 4 is not yet high risk
IsHighRisk_Above4(normalized) == normalized.total > 4

\* normalized.total >= 4
IsHighRisk(normalized) == normalized.total >= 4

\* variant: 99.6 itself is not yet a fever
IsFever_Above(normalized) ==
    normalized.temperature.ok /\ normalized.temperature.value > 9960

\* normalized.temperature !== null && normalized.temperature >= 99.6
IsFever(normalized) ==
    normalized.temperature.ok /\ normalized.temperature.value >= 9960

\* list.push(id) when the condition holds
PushIf(condition, list, id) == IF condition THEN Append(list, id) ELSE list

\* fetchPatients up to the forEach: the records have arrived, the lists and
\* the set are new.  The model follows one run; a later run starts from new
\* lists again and replaces alerts as a whole.
fetchPatients ==
    /\ ~loadingPatients
    /\ processed = 0
    /\ loadingPatients' = TRUE
    /\ highRisk' = <<>>
    /\ fever' = <<>>
    /\ dataQuality' = <<>>
    /\ seen' = {}
    /\ UNCHANGED <<entry, processed, offered, alerts, formVars, fetchVars>>

\* the body of the forEach callback, for the normalized record
Classify(normalized) ==
    IF ~normalized.ok \/ IsDuplicate(normalized.id, seen)
    THEN UNCHANGED <<seen, highRisk, fever, dataQuality>>
    ELSE /\ seen' = seen \cup {normalized.id}
         /\ highRisk' = PushIf(IsHighRisk(normalized), highRisk, normalized.id)
         /\ fever' = PushIf(IsFever(normalized), fever, normalized.id)
         /\ dataQuality' = PushIf(normalized.hasInvalid, dataQuality, normalized.id)

\* records.forEach((entry) => ...): one call of the callback
forEachRecord(patient) ==
    /\ loadingPatients
    /\ processed < MaxRecords
    /\ entry' = [present |-> TRUE, patient |-> patient]
    /\ processed' = processed + 1
    /\ offered' = offered \cup {<<patient.patient_id, patient.id>>}
    /\ Classify(normalizePatient(patient))
    /\ UNCHANGED <<loadingPatients, alerts, formVars, fetchVars>>

\* setAlerts({ highRisk, fever, dataQuality, totalPatients: seen.size }) and
\* setLoadingPatients(false)
setAlerts ==
    /\ loadingPatients
    /\ alerts' = [highRisk |-> highRisk, fever |-> fever,
                  dataQuality |-> dataQuality, totalPatients |-> Cardinality(seen)]
    /\ loadingPatients' = FALSE
    /\ UNCHANGED <<entry, processed, offered, seen, highRisk, fever, dataQuality,
                   formVars, fetchVars>>

ClassifierNext ==
    \/ fetchPatients
    \/ \E patient \in Patients : forEachRecord(patient)
    \/ setAlerts

ClassifierSpec == Init /\ [][ClassifierNext]_vars

(***************************************************************************)
(* The batch classifier: properties                                        *)
(***************************************************************************)
Range(list) == {list[i] : i \in 1 .. Len(list)}

NoDuplicates(list) ==
    \A i, j \in 1 .. Len(list) : list[i] = list[j] => i = j

\* the record forEach is called with in this step is kept by normalizePatient
\* and its id has not been seen before
FirstOccurrence ==
    /\ processed' = processed + 1
    /\ normalizePatient(entry'.patient).ok
    /\ normalizePatient(entry'.patient).id \notin seen

\* the record forEach is called with in this step has an id seen before
LaterDuplicate ==
    /\ processed' = processed + 1
    /\ normalizePatient(entry'.patient).ok
    /\ normalizePatient(entry'.patient).id \in seen

\* the three scores of a raw record, each from its own field
ScoresOf(patient) ==
    [bloodPressure |->
         bpScoreOf(parseBloodPressureReading(patient.blood_pressure)),
     temperature |->
         getTemperatureScore(TextOrEmpty(parseTemperatureValue(patient.temperature))),
     age |-> getAgeScore(TextOrEmpty(parseAgeValue(patient.age)))]

SumOf(scores) == scores.bloodPressure + scores.temperature + scores.age

\* C15: for every raw record the classifier keeps, the total is exactly the sum
\* of the blood pressure, temperature and age scores and lies in 0..8, and at
\* the first occurrence of its id the id is put in the high-risk list if and
\* only if the total is at least 4.
C15_TotalIsSumAndHighRiskFrom4 ==
    [][FirstOccurrence =>
          /\ normalizePatient(entry'.patient).total = SumOf(ScoresOf(entry'.patient))
          /\ normalizePatient(entry'.patient).total \in 0 .. 8
          /\ (normalizePatient(entry'.patient).id \in Range(highRisk')
                  <=> SumOf(ScoresOf(entry'.patient)) >= 4)
          /\ (normalizePatient(entry'.patient).id \in Range(highRisk')
                  => highRisk' = Append(highRisk, normalizePatient(entry'.patient).id))
          /\ (normalizePatient(entry'.patient).id \notin Range(highRisk')
                  => highRisk' = highRisk)]_vars

\* a record whose total is exactly 4 has been put in the high-risk list
C15_Witness ==
    /\ entry.present
    /\ normalizePatient(entry.patient).ok
    /\ normalizePatient(entry.patient).total = 4
    /\ highRisk # <<>>
    /\ highRisk[Len(highRisk)] = normalizePatient(entry.patient).id

\* C16: of several records with the same id only the first is scored and
\* classified: a later one changes neither the set of ids seen nor any of the
\* three lists, whatever its vitals, and the run reports those lists and the
\* number of ids seen.
C16_LaterDuplicatesIgnored ==
    /\ [][LaterDuplicate => UNCHANGED <<seen, highRisk, fever, dataQuality>>]_vars
    /\ []((~loadingPatients) =>
              alerts = [highRisk |-> highRisk, fever |-> fever,
                        dataQuality |-> dataQuality,
                        totalPatients |-> Cardinality(seen)])

\* a second record with the id of the first and alarming vitals, after a first
\* with unremarkable vitals, has left every list empty and one patient counted
C16_Witness ==
    /\ ~loadingPatients
    /\ processed = 2
    /\ normalizePatient(entry.patient).ok
    /\ normalizePatient(entry.patient).total >= 4
    /\ IsFever(normalizePatient(entry.patient))
    /\ seen = {normalizePatient(entry.patient).id}
    /\ alerts = [highRisk |-> <<>>, fever |-> <<>>, dataQuality |-> <<>>,
                 totalPatients |-> 1]

\* the id of a record by the rule "the first non-empty of patient_id and id",
\* from the two id fields
IsNonEmptyString(field) == field.type = "string" /\ field.text # EmptyText

HasUsableId(fields) == IsNonEmptyString(fields[1]) \/ IsNonEmptyString(fields[2])

FirstNonEmpty(fields) ==
    IF IsNonEmptyString(fields[1]) THEN fields[1].text ELSE fields[2].text

\* the distinct ids of the records the run was given
OfferedIds == {FirstNonEmpty(fields) : fields \in {f \in offered : HasUsableId(f)}}

\* C17: after a run, no alert list holds an id twice, every id in a list is
\* the id of some record of the batch, and totalPatients is the number of
\* distinct ids of the batch, where a record's id is the first non-empty of
\* patient_id and id and records with neither are not counted.
C17_ListsAndCountMatchTheBatch ==
    (~loadingPatients) =>
        /\ NoDuplicates(alerts.highRisk)
        /\ NoDuplicates(alerts.fever)
        /\ NoDuplicates(alerts.dataQuality)
        /\ Range(alerts.highRisk) \subseteq OfferedIds
        /\ Range(alerts.fever) \subseteq OfferedIds
        /\ Range(alerts.dataQuality) \subseteq OfferedIds
        /\ alerts.totalPatients = Cardinality(OfferedIds)

\* C18: a record is kept under the first non-empty of patient_id and id, and is
\* dropped only when neither is a non-empty string; a record with patient_id ""
\* and a non-empty id is kept under its id.
C18_FirstNonEmptyIdField ==
    entry.present =>
        /\ HasUsableId(<<entry.patient.patient_id, entry.patient.id>>) =>
               FirstNonEmpty(<<entry.patient.patient_id, entry.patient.id>>) \in seen
        /\ ~HasUsableId(<<entry.patient.patient_id, entry.patient.id>>) =>
               ~normalizePatient(entry.patient).ok

\* the temperature field of a record as a number: the values of the model's
\* numeric temperature fields, in hundredths
TemperatureOf(field) ==
    IF field.type = "number" THEN field.value
    ELSE IF field = Str(<<"9", "9", ".", "6">>) THEN 9960
    ELSE 0

\* C19: at the first occurrence of its id a record's id is put in the fever
\* list if and only if its temperature is numeric and at least 99.6, whatever
\* the temperature score and whatever the blood pressure and age; a record
\* with temperature 100.0, whose score is 1, is in the fever list.
C19_FeverFrom996 ==
    [][FirstOccurrence =>
          /\ (normalizePatient(entry'.patient).id \in Range(fever')
                  <=> /\ entry'.patient.temperature \in ValidTemperatures
                      /\ TemperatureOf(entry'.patient.temperature) >= 9960)
          /\ (normalizePatient(entry'.patient).id \in Range(fever')
                  => fever' = Append(fever, normalizePatient(entry'.patient).id))
          /\ (normalizePatient(entry'.patient).id \notin Range(fever')
                  => fever' = fever)
          /\ (entry'.patient.temperature = NumberValue(10000)
                  => /\ normalizePatient(entry'.patient).tempScore = 1
                     /\ normalizePatient(entry'.patient).id \in Range(fever'))]_vars

\* a record whose temperature is the text "99.6", the threshold itself, is in
\* the fever list
C19_Witness ==
    /\ entry.present
    /\ entry.patient.temperature = Str(<<"9", "9", ".", "6">>)
    /\ normalizePatient(entry.patient).ok
    /\ fever # <<>>
    /\ fever[Len(fever)] = normalizePatient(entry.patient).id

\* C20: at the first occurrence of its id a record's id is put in the data
\* quality list if and only if its blood pressure is not a
\* 'systolic/diastolic' string with two numeric halves, or its temperature is
\* not numeric, or its age is not numeric or is negative; "bad/data" is
\* flagged whatever the temperature and age, and a record with all three
\* parsable is never flagged.
C20_DataQualityIffAFieldFails ==
    [][FirstOccurrence =>
          /\ (normalizePatient(entry'.patient).id \in Range(dataQuality')
                  <=> \/ entry'.patient.blood_pressure \in InvalidBloodPressures
                      \/ entry'.patient.temperature \in InvalidTemperatures
                      \/ entry'.patient.age \in InvalidAges)
          /\ (normalizePatient(entry'.patient).id \in Range(dataQuality')
                  => dataQuality' =
                         Append(dataQuality, normalizePatient(entry'.patient).id))
          /\ (normalizePatient(entry'.patient).id \notin Range(dataQuality')
                  => dataQuality' = dataQuality)
          /\ (entry'.patient.blood_pressure = Str(<<"b", "a", "d", "/", "d", "a", "t", "a">>)
                  => normalizePatient(entry'.patient).id \in Range(dataQuality'))]_vars

\* a record with blood pressure "bad/data" and a valid temperature and age is
\* in the data quality list
C20_Witness ==
    /\ entry.present
    /\ entry.patient.blood_pressure = Str(<<"b", "a", "d", "/", "d", "a", "t", "a">>)
    /\ entry.patient.temperature \in ValidTemperatures
    /\ entry.patient.age \in ValidAges
    /\ normalizePatient(entry.patient).ok
    /\ dataQuality # <<>>
    /\ dataQuality[Len(dataQuality)] = normalizePatient(entry.patient).id

(***************************************************************************)
(* The query of GET /api/patients: properties                              *)
(***************************************************************************)
\* values of the limit parameter
LimitParams ==
    {Absent,
     Param(<<>>),
     Param(<<"a", "b", "c">>),
     Param(<<"0">>),
     Param(<<"-", "3">>),
     Param(<<"-", "0", ".", "5">>),
     Param(<<"1">>),
     Param(<<"5">>),
     Param(<<"7", ".", "9">>),
     Param(<<" ", "1", "0", " ">>),
     Param(<<"2", "0">>),
     Param(<<"2", "0", ".", "5">>),
     Param(<<"2", "1">>),
     Param(<<"2", "5">>)}

\* values of the maxPages parameter
MaxPagesParams ==
    {Absent,
     Param(<<>>),
     Param(<<"a", "b", "c">>),
     Param(<<"0">>),
     Param(<<"-", "2">>),
     Param(<<"1">>),
     Param(<<"2", ".", "5">>),
     Param(<<"1", "0">>),
     Param(<<"5", "0">>)}

Queries == [limit : LimitParams, maxPages : MaxPagesParams]

\* one request with any of these queries; the pagination is not followed
QueryNext == \E e \in Envs, q \in Queries : GET(e, q)

QuerySpec == Init /\ [][QueryNext]_vars

\* a parameter that is absent, or present and not a number
AbsentOrNotANumber(raw) == raw = Absent \/ raw = Param(<<"a", "b", "c">>)

\* C21: for every query the GET route passes to fetchAllPatients a limit that
\* is an integer from 1 to 20 and a maxPages that is an integer of at least 1;
\* with the limit parameter absent or not a number the limit is 5, and with
\* the maxPages parameter absent or not a number maxPages is 10.
C21_QueryDefaultsAndClamps ==
    op = "fetchAllPatients" =>
        /\ limit \in 1 .. 20
        /\ maxPages \in Nat
        /\ maxPages >= 1
        /\ AbsentOrNotANumber(query.limit) => limit = 5
        /\ AbsentOrNotANumber(query.maxPages) => maxPages = 10

(***************************************************************************)
(* The order of the requests of a run                                      *)
(***************************************************************************)
\* a fetchWithRetry call of fetchAllPatients is under way
PageCallUnderWay == op = "fetchAllPatients" /\ pc \in {"retry", "await"}

\* this step starts a fetchWithRetry call of fetchAllPatients
PageCallStarts ==
    /\ pc \in {"idle", "loop"}
    /\ pc' = "retry"
    /\ op' = "fetchAllPatients"

\* this step issues a request
RequestIssued == requests' = requests + 1

\* C22: in one fetchAllPatients run the pages are requested one after the
\* other in the order 1, 2, 3, ..., with at most one request outstanding: every
\* request is for the page after the last page that returned a success
\* response, and a request is issued only when none is awaited.  The retry
\* budget is per page: the call for each page starts its attempt count anew,
\* whatever the calls for earlier pages used, and its first request is
\* attempt 1, so each of the at most maxPages pages has its own 5 attempts.
C22_SequentialPagesFreshBudget ==
    /\ [](PageCallUnderWay =>
              /\ url = buildPatientsUrl(page, limit)
              /\ page \in 1 .. maxPages
              /\ pagesFetched = page - 1
              /\ Len(served) = page - 1
              /\ requests = attempt
              /\ attempt <= 5)
    /\ [][/\ PageCallStarts => (attempt' = 0 /\ requests' = 0)
          /\ (PageCallUnderWay /\ attempt = 0) => (attempt' = 1 /\ pc' = "await")
          /\ RequestIssued => (pc = "retry" /\ pc' = "await")
          /\ (op' = "fetchAllPatients" /\ page' # page) =>
                 \/ pc = "idle" /\ page' = 1
                 \/ /\ pc = "await"
                    /\ pc' = "loop"
                    /\ IsOk(lastOutcome')
                    /\ page' = page + 1]_vars

\* page 1 returned a success response at its fifth attempt and page 2 is
\* about to be requested
C22_Witness ==
    /\ op = "fetchAllPatients"
    /\ pc = "loop"
    /\ page = 2
    /\ hasNext
    /\ maxPages >= 2
    /\ attempt = 5
    /\ requests = 5

(***************************************************************************)
(* The requests of a submitAssessment call                                 *)
(***************************************************************************)
\* at most 5 requests, all with the url and payload of the call, and a call
\* that returned has sent at least one
SubmitSendsOneToFive ==
    [](op = "submitAssessment" =>
           /\ requests <= 5
           /\ requests >= 1 => url = SubmitUrl
           /\ result.returned => (requests \in 1 .. 5 /\ pc = "done"))

\* a request after the first follows a 429, a 500, a 503 or a transport
\* failure of the one before
SubmitResendsAfterRetriableOnly ==
    [][(op = "submitAssessment" /\ RequestIssued /\ requests >= 1) =>
           lastOutcome \in {429, 500, 503, TransportFailure}]_vars

\* once a success response has come in, no request follows
SubmitStopsAtSuccess ==
    [][(op = "submitAssessment" /\ lastOutcome \in Statuses /\ IsOk(lastOutcome)) =>
           (requests' = requests /\ pc' = "done")]_vars

\* a call none of whose requests succeeded has ended with the error of its
\* last request
SubmitFailsWithLastError ==
    []((/\ op = "submitAssessment"
        /\ pc = "done"
        /\ requests >= 1
        /\ lastOutcome = TransportFailure \/ ~IsOk(lastOutcome)) =>
           /\ error.thrown
           /\ error = IF lastOutcome = TransportFailure
                      THEN TransportError
                      ELSE StatusError(lastOutcome))

\* C23: one submitAssessment call sends its payload through fetchWithRetry
\* between 1 and 5 times, sending again after a retriable status (429, 500,
\* 503) or a transport failure, never sends again once a success response has
\* come in, and fails with the last error when no attempt succeeds.
C23_SubmitRetryPolicy ==
    /\ SubmitSendsOneToFive
    /\ SubmitResendsAfterRetriableOnly
    /\ SubmitStopsAtSuccess
    /\ SubmitFailsWithLastError

====
